---- MODULE Spec2Model ----
(***************************************************************************)
(* Model of src/src/components/GeminiImageGenerator.tsx: the React         *)
(* component state (word, style, image, loading, error, debugInfo), the    *)
(* asynchronous handler generateImage and the handler saveImage.           *)
(*                                                                         *)
(* Text is a sequence of chunks (strings); an optional value (null /       *)
(* undefined in the source) is <<>> and a present value v is <<v>>.        *)
(***************************************************************************)
EXTENDS Integers, Sequences, FiniteSets, TLC

VARIABLES API_KEY, style, word, image, loading, error, debugInfo,
          runs, saved, uncaught, last

vars == <<API_KEY, style, word, image, loading, error, debugInfo,
          runs, saved, uncaught, last>>

\* ---------------------------------------------------------------- bounds
\* how many invocations of generateImage the model lets be in progress
MaxInFlight == 2
\* longest captured trace onto which the catch block still appends
MaxTrace == 4

\* ------------------------------------------------------- optional values
Null == <<>>
Some(v) == <<v>>

\* JavaScript falsiness of an optional string: undefined or ""
Falsy(o) == o = Null \/ o[1] = <<>>

RECURSIVE JoinWith(_, _)
JoinWith(items, sep) ==
  IF items = <<>> THEN <<>>
  ELSE IF Len(items) = 1 THEN items[1]
  ELSE items[1] \o sep \o JoinWith(Tail(items), sep)

\* ------------------------------------------------------------- base64
B64Chars ==
  << "A","B","C","D","E","F","G","H","I","J","K","L","M",
     "N","O","P","Q","R","S","T","U","V","W","X","Y","Z",
     "a","b","c","d","e","f","g","h","i","j","k","l","m",
     "n","o","p","q","r","s","t","u","v","w","x","y","z",
     "0","1","2","3","4","5","6","7","8","9","+","/" >>

B64Index(c) == (CHOOSE i \in 1..Len(B64Chars) : B64Chars[i] = c) - 1

IsB64Char(c) == \E i \in 1..Len(B64Chars) : B64Chars[i] = c

IsAsciiWhitespace(c) == c \in {" ", "\t", "\n", "\f", "\r"}

StripWhitespace(s) == SelectSeq(s, LAMBDA c : ~IsAsciiWhitespace(c))

\* removes one or two trailing "=" when the length is a multiple of four
StripPadding(s) ==
  IF Len(s) > 0 /\ Len(s) % 4 = 0 /\ s[Len(s)] = "="
  THEN IF s[Len(s) - 1] = "="
       THEN SubSeq(s, 1, Len(s) - 2)
       ELSE SubSeq(s, 1, Len(s) - 1)
  ELSE s

RECURSIVE B64Bytes(_)
B64Bytes(s) ==
  IF Len(s) >= 4
  THEN LET n == B64Index(s[1]) * 262144 + B64Index(s[2]) * 4096
                + B64Index(s[3]) * 64 + B64Index(s[4])
       IN  << n \div 65536, (n \div 256) % 256, n % 256 >>
             \o B64Bytes(SubSeq(s, 5, Len(s)))
  ELSE IF Len(s) = 3
  THEN LET n == (B64Index(s[1]) * 4096 + B64Index(s[2]) * 64
                 + B64Index(s[3])) \div 4
       IN  << n \div 256, n % 256 >>
  ELSE IF Len(s) = 2
  THEN << (B64Index(s[1]) * 64 + B64Index(s[2])) \div 16 >>
  ELSE <<>>

\* window.atob: the decoded bytes, or a thrown InvalidCharacterError
AtobError ==
  [message |-> Some(<<"The string to be decoded is not correctly encoded.">>)]

atob(data) ==
  LET s == StripPadding(StripWhitespace(data))
  IN  IF Len(s) % 4 = 1 \/ \E i \in 1..Len(s) : ~IsB64Char(s[i])
      THEN [ok |-> FALSE, bytes |-> <<>>, err |-> AtobError]
      ELSE [ok |-> TRUE, bytes |-> B64Bytes(s), err |-> AtobError]

\* ------------------------------------------------- String.prototype.split
RECURSIVE SplitSlash(_)
SplitSlash(s) ==
  IF \E i \in 1..Len(s) : s[i] = "/"
  THEN LET k == CHOOSE i \in 1..Len(s) :
                  s[i] = "/" /\ \A j \in 1..(i - 1) : s[j] # "/"
       IN  <<SubSeq(s, 1, k - 1)>> \o SplitSlash(SubSeq(s, k + 1, Len(s)))
  ELSE <<s>>

\* mimeType.split('/')[1] || 'png'
extension(mimeType) ==
  LET segs == SplitSlash(mimeType)
  IN  IF Len(segs) < 2 \/ segs[2] = <<>> THEN <<"png">> ELSE segs[2]

\* ------------------------------------------- JSON.stringify(value, null, 2)
IndentStr ==
  << "\n", "\n  ", "\n    ", "\n      ", "\n        ", "\n          ",
     "\n            ", "\n              ", "\n                " >>

NL(d) == <<IndentStr[d + 1]>>

JString(s) == <<"\"">> \o s \o <<"\"">>

\* fields: the present properties, in order, as <<key, serialized value>>
RECURSIVE JMembers(_)
JMembers(fields) ==
  IF fields = <<>> THEN <<>>
  ELSE <<JString(<<fields[1][1]>>) \o <<": ">> \o fields[1][2]>>
       \o JMembers(Tail(fields))

JObject(fields, d) ==
  IF fields = <<>> THEN <<"{}">>
  ELSE <<"{">> \o NL(d + 1)
       \o JoinWith(JMembers(fields), <<",">> \o NL(d + 1))
       \o NL(d) \o <<"}">>

JArray(items, d) ==
  IF items = <<>> THEN <<"[]">>
  ELSE <<"[">> \o NL(d + 1) \o JoinWith(items, <<",">> \o NL(d + 1))
       \o NL(d) \o <<"]">>

JField(key, opt, text) == IF opt = Null THEN <<>> ELSE << <<key, text>> >>

StringifyInlineData(x, d) ==
  JObject(<< <<"mimeType", JString(x.mimeType)>>,
             <<"data", JString(x.data)>> >>, d)

StringifyPart(p, d) ==
  JObject(JField("text", p.text,
                 IF p.text = Null THEN <<>> ELSE JString(p.text[1]))
          \o JField("inlineData", p.inlineData,
                    IF p.inlineData = Null THEN <<>>
                    ELSE StringifyInlineData(p.inlineData[1], d + 1)), d)

RECURSIVE StringifyParts(_, _)
StringifyParts(parts, d) ==
  IF parts = <<>> THEN <<>>
  ELSE <<StringifyPart(parts[1], d)>> \o StringifyParts(Tail(parts), d)

StringifyContent(c, d) ==
  JObject(JField("parts", c.parts,
                 IF c.parts = Null THEN <<>>
                 ELSE JArray(StringifyParts(c.parts[1], d + 2), d + 1)),
          d)

RECURSIVE StringifyCategories(_)
StringifyCategories(cats) ==
  IF cats = <<>> THEN <<>>
  ELSE <<JString(<<cats[1]>>)>> \o StringifyCategories(Tail(cats))

StringifySafety(a, d) ==
  JObject(JField("blockedCategories", a.blockedCategories,
                 IF a.blockedCategories = Null THEN <<>>
                 ELSE JArray(StringifyCategories(a.blockedCategories[1]),
                             d + 1)),
          d)

StringifyCandidate(c, d) ==
  JObject(JField("content", c.content,
                 IF c.content = Null THEN <<>>
                 ELSE StringifyContent(c.content[1], d + 1))
          \o JField("safetyAttributes", c.safetyAttributes,
                    IF c.safetyAttributes = Null THEN <<>>
                    ELSE StringifySafety(c.safetyAttributes[1], d + 1)), d)

RECURSIVE StringifyCandidates(_, _)
StringifyCandidates(cands, d) ==
  IF cands = <<>> THEN <<>>
  ELSE <<StringifyCandidate(cands[1], d)>>
       \o StringifyCandidates(Tail(cands), d)

Stringify(response) ==
  JObject(JField("candidates", response.candidates,
                 IF response.candidates = Null THEN <<>>
                 ELSE JArray(StringifyCandidates(response.candidates[1], 2),
                             1)),
          0)

\* ------------------------------------------------------------ inputs
Words == { <<>>, <<" ">>, <<"f", "o", "x">> }
Styles == { <<>>, <<"i", "n", "k">> }
Keys == { <<>>, <<"k", "e", "y">> }

TextPart == [text |-> Some(<<"Here is your image">>), inlineData |-> Null]
PngPart ==
  [text |-> Null,
   inlineData |-> Some([mimeType |-> <<"image", "/", "png">>,
                        data |-> <<"Y", "W", "J", "j">>])]
JpegPart ==
  [text |-> Null,
   inlineData |-> Some([mimeType |-> <<"image", "/", "jpeg">>,
                        data |-> <<"Y", "Q", "=", "=">>])]
BadPart ==
  [text |-> Null,
   inlineData |-> Some([mimeType |-> <<"image">>,
                        data |-> <<"Y", "W", "!">>])]

Candidate(cats, parts) ==
  [safetyAttributes |-> IF cats = Null THEN Null
                        ELSE Some([blockedCategories |-> cats]),
   content |-> IF parts = Null THEN Null ELSE Some([parts |-> parts])]

\* the shapes generateContent resolves to
Responses ==
  { [candidates |-> Null],
    [candidates |-> Some(<<Candidate(Some(<<"IMAGE_SAFETY">>), Null)>>)],
    [candidates |-> Some(<<Candidate(Some(<<"HATE", "IMAGE_SAFETY">>),
                                     Some(<<TextPart, PngPart>>))>>)],
    [candidates |-> Some(<<Candidate(Some(<<"HATE">>),
                                     Some(<<TextPart, PngPart>>))>>)],
    [candidates |-> Some(<<Candidate(Null, Some(<<JpegPart, PngPart>>))>>)],
    [candidates |-> Some(<<Candidate(Null, Some(<<BadPart>>))>>)],
    [candidates |-> Some(<<Candidate(Null, Some(<<TextPart>>))>>)],
    [candidates |-> Some(<<Candidate(Null, Some(<<TextPart>>)),
                           Candidate(Some(<<"IMAGE_SAFETY">>),
                                     Some(<<PngPart>>))>>)] }

\* what generateContent rejects with
Errors == { [message |-> Null], [message |-> Some(<<"fetch failed">>)] }

\* ---------------------------------------------------------- messages
MsgMissingFields == <<"Please enter both a word and style">>
MsgMissingKey ==
  <<"API key is missing. Please add your Gemini API key to the .env file.">>
MsgBlocked ==
  <<"The image generation was blocked due to safety concerns. Please try a different prompt.">>
MsgNoImage ==
  <<"Failed to generate an image. The API did not return image data.">>
MsgNoValidImage == <<"No valid image data to save">>

\* err.message || 'Unknown error'
ErrText(err) == IF Falsy(err.message) THEN <<"Unknown error">> ELSE err.message[1]

MsgGenerateFailed(err) == <<"Failed to generate image: ">> \o ErrText(err)
MsgSaveFailed(err) == <<"Failed to save image: ">> \o ErrText(err)

imagePrompt(w, s) ==
  <<"Create a high-quality, clear image of a \"">> \o w
  \o <<"\" in the style of ">> \o s
  \o <<". The object should be the central focus of the image, and visually styled according to the description: ">>
  \o s \o <<". Make it visually appealing and artistic.">>

LineSending(w, s) == <<"Sending prompt: ">> \o imagePrompt(w, s)
LineReceived == <<"Received response from Gemini API">>
LineProcessing == <<"Processing response">>
LineBlocked == <<"Image was blocked due to safety concerns">>
LineExtracted == <<"Successfully extracted image data">>
LineMime(part) == <<"Image MIME type: ">> \o part.inlineData[1].mimeType
LineNoImage == <<"No image data found in the response">>
\* JSON.stringify(response, null, 2) of each response, computed once
Serialized == [r \in Responses |-> Stringify(r)]

LineResponse(response) == <<"API Response: ">> \o Serialized[response]
LineError(err) == <<"Error: ">> \o ErrText(err)

\* ------------------------------------------------ response inspection
\* response.candidates?.[0]
firstCandidate(response) ==
  IF response.candidates = Null \/ response.candidates[1] = <<>> THEN Null
  ELSE Some(response.candidates[1][1])

\* response.candidates?.[0]?.safetyAttributes?.blockedCategories
\*   ?.includes('IMAGE_SAFETY')
isSafetyBlocked(response) ==
  LET c == firstCandidate(response)
  IN  /\ c # Null
      /\ c[1].safetyAttributes # Null
      /\ c[1].safetyAttributes[1].blockedCategories # Null
      /\ LET cats == c[1].safetyAttributes[1].blockedCategories[1]
         IN  \E i \in 1..Len(cats) : cats[i] = "IMAGE_SAFETY"

\* response.candidates?.[0]?.content?.parts
firstParts(response) ==
  LET c == firstCandidate(response)
  IN  IF c = Null \/ c[1].content = Null \/ c[1].content[1].parts = Null
      THEN <<>>
      ELSE c[1].content[1].parts[1]


\* variant: the last part carrying inline data instead of the first
imagePart_Last(response) ==
  LET parts == firstParts(response)
      hits == SelectSeq(parts, LAMBDA part : part.inlineData # Null)
  IN  IF hits = <<>> THEN Null ELSE Some(hits[Len(hits)])

\* ...parts?.find(part => part.inlineData)
imagePart(response) ==
  LET parts == firstParts(response)
      hits == SelectSeq(parts, LAMBDA part : part.inlineData # Null)
  IN  IF hits = <<>> THEN Null ELSE Some(hits[1])


\* variant: the search for inline data runs before the safety check
Classify_ImageFirst(response) ==
  IF imagePart(response) # Null THEN "image"
  ELSE IF isSafetyBlocked(response) THEN "blocked"
  ELSE "noImage"

\* the branch generateImage takes on a resolved response
Classify(response) ==
  IF isSafetyBlocked(response) THEN "blocked"
  ELSE IF imagePart(response) # Null THEN "image"
  ELSE "noImage"


\* variant: the response is logged before the "no image" line
noImageLogs_ResponseFirst(logs, response) ==
  logs \o <<LineResponse(response), LineNoImage>>

\* the lines pushed onto logs when no image part is found
noImageLogs(logs, response) ==
  logs \o <<LineNoImage, LineResponse(response)>>

\* the trace the catch block stores: captured is the debugInfo of the render
\* whose generateImage is running, latest is the current state
catchDebugInfo(captured, latest, err) == Append(captured, LineError(err))


\* variant: setLoading(false) at the end of the try block, which the early
\* return of the safety branch skips
finallyLoading_SkippedByReturn(path) == path = "blocked"

\* loading after the finally block, for the path the try block took
finallyLoading(path) == FALSE


\* variant: no check of the credential
preconditionError_NoKeyCheck(w, s, key) ==
  IF w = <<>> \/ s = <<>> THEN Some(MsgMissingFields) ELSE Null

\* ------------------------------------------------------- preconditions
\* the early returns of generateImage: the message set, or Null to go on
preconditionError(w, s, key) ==
  IF w = <<>> \/ s = <<>> THEN Some(MsgMissingFields)
  ELSE IF key = <<>> THEN Some(MsgMissingKey)
  ELSE Null


\* variant: the button is not disabled while loading
generateDisabled_NotWhileLoading == word = <<>> \/ style = <<>>

\* disabled={loading || !word || !style}
generateDisabled == loading \/ word = <<>> \/ style = <<>>

\* disabled={!image}
saveDisabled == image = Null

\* --------------------------------------------------------- saveImage
NoEffect == [setError |-> Null, saveAs |-> Null, thrown |-> FALSE]


\* variant: no try/catch around the decode
saveResult_NoCatch(img, w) ==
  IF img = Null \/ w = <<>> THEN NoEffect
  ELSE IF img[1].inlineData # Null
  THEN LET inl == img[1].inlineData[1]
           dec == atob(inl.data)
       IN  IF dec.ok
           THEN [setError |-> Null,
                 saveAs |-> Some([name |-> w \o <<".">> \o extension(inl.mimeType),
                                  type |-> inl.mimeType,
                                  bytes |-> dec.bytes]),
                 thrown |-> FALSE]
           ELSE [setError |-> Null, saveAs |-> Null, thrown |-> TRUE]
  ELSE [setError |-> Some(MsgNoValidImage), saveAs |-> Null, thrown |-> FALSE]

saveResult(img, w) ==
  IF img = Null \/ w = <<>> THEN NoEffect
  ELSE IF img[1].inlineData # Null
  THEN LET inl == img[1].inlineData[1]
           dec == atob(inl.data)
       IN  IF dec.ok
           THEN [setError |-> Null,
                 saveAs |-> Some([name |-> w \o <<".">> \o extension(inl.mimeType),
                                  type |-> inl.mimeType,
                                  bytes |-> dec.bytes]),
                 thrown |-> FALSE]
           ELSE [setError |-> Some(MsgSaveFailed(dec.err)),
                 saveAs |-> Null, thrown |-> FALSE]
  ELSE [setError |-> Some(MsgNoValidImage), saveAs |-> Null, thrown |-> FALSE]

\* ------------------------------------------------------ state machine
Op(op, path, response) == [op |-> op, path |-> path, response |-> response]

RemoveAt(s, i) == SubSeq(s, 1, i - 1) \o SubSeq(s, i + 1, Len(s))

Init ==
  /\ API_KEY \in Keys
  /\ style = <<>>
  /\ word = <<>>
  /\ image = Null
  /\ loading = FALSE
  /\ error = Null
  /\ debugInfo = <<>>
  /\ runs = <<>>
  /\ saved = Null
  /\ uncaught = FALSE
  /\ last = Op("init", "", Null)

setWord(v) ==
  /\ word' = v
  /\ last' = Op("setWord", "", Null)
  /\ UNCHANGED <<API_KEY, style, image, loading, error, debugInfo, runs,
                 saved, uncaught>>

setStyle(v) ==
  /\ style' = v
  /\ last' = Op("setStyle", "", Null)
  /\ UNCHANGED <<API_KEY, word, image, loading, error, debugInfo, runs,
                 saved, uncaught>>

\* click on Generate: generateImage up to its first await
generateImage ==
  /\ ~generateDisabled
  /\ LET pre == preconditionError(word, style, API_KEY)
         logs == <<LineSending(word, style)>>
     IN  IF pre # Null
         THEN /\ error' = pre
              /\ last' = Op("generateImage", "precondition", Null)
              /\ UNCHANGED <<loading, debugInfo, runs>>
         ELSE /\ Len(runs) < MaxInFlight
              /\ loading' = TRUE
              /\ error' = Null
              /\ debugInfo' = logs
              /\ runs' = Append(runs, [pc |-> "awaitCall",
                                       debugInfo |-> debugInfo,
                                       logs |-> logs,
                                       response |-> Null])
              /\ last' = Op("generateImage", "sent", Null)
  /\ UNCHANGED <<API_KEY, style, word, image, saved, uncaught>>

\* model.generateContent resolves: generateImage up to its second await
callResolves(i, response) ==
  /\ runs[i].pc = "awaitCall"
  /\ LET logs == Append(runs[i].logs, LineReceived)
     IN  /\ debugInfo' = logs
         /\ runs' = [runs EXCEPT ![i] = [@ EXCEPT !.pc = "awaitResponse",
                                                  !.logs = logs,
                                                  !.response = Some(response)]]
  /\ last' = Op("callResolves", "", Some(response))
  /\ UNCHANGED <<API_KEY, style, word, image, loading, error, saved, uncaught>>

\* model.generateContent rejects: the catch and finally blocks
callRejects(i, err) ==
  /\ runs[i].pc = "awaitCall"
  /\ Len(runs[i].debugInfo) < MaxTrace
  /\ error' = Some(MsgGenerateFailed(err))
  /\ debugInfo' = catchDebugInfo(runs[i].debugInfo, debugInfo, err)
  /\ loading' = finallyLoading("error")
  /\ runs' = RemoveAt(runs, i)
  /\ last' = Op("callRejects", "error", Null)
  /\ UNCHANGED <<API_KEY, style, word, image, saved, uncaught>>

\* generateImage from the second await to its end
processResponse(i) ==
  /\ runs[i].pc = "awaitResponse"
  /\ LET response == runs[i].response[1]
         logs == Append(runs[i].logs, LineProcessing)
         path == Classify(response)
     IN  /\ CASE path = "blocked" ->
                   /\ error' = Some(MsgBlocked)
                   /\ debugInfo' = Append(logs, LineBlocked)
                   /\ image' = image
              [] path = "image" ->
                   /\ image' = imagePart(response)
                   /\ debugInfo' = logs \o <<LineExtracted,
                                            LineMime(imagePart(response)[1])>>
                   /\ error' = error
              [] OTHER ->
                   /\ error' = Some(MsgNoImage)
                   /\ debugInfo' = noImageLogs(logs, response)
                   /\ image' = image
         /\ loading' = finallyLoading(path)
         /\ last' = Op("processResponse", path, Some(response))
  /\ runs' = RemoveAt(runs, i)
  /\ UNCHANGED <<API_KEY, style, word, saved, uncaught>>

\* click on Save Image
saveImage ==
  /\ ~saveDisabled
  /\ LET r == saveResult(image, word)
     IN  /\ error' = IF r.setError = Null THEN error ELSE r.setError
         /\ saved' = IF r.saveAs = Null THEN saved ELSE r.saveAs
         /\ uncaught' = (uncaught \/ r.thrown)
         /\ last' = Op("saveImage",
                       IF r.thrown THEN "thrown"
                       ELSE IF r.saveAs # Null THEN "saved"
                       ELSE IF r.setError # Null THEN "error"
                       ELSE "noop", Null)
  /\ UNCHANGED <<API_KEY, style, word, image, loading, debugInfo, runs>>

Next ==
  \/ \E v \in Words : setWord(v)
  \/ \E v \in Styles : setStyle(v)
  \/ generateImage
  \/ \E i \in 1..Len(runs) : \E response \in Responses : callResolves(i, response)
  \/ \E i \in 1..Len(runs) : \E err \in Errors : callRejects(i, err)
  \/ \E i \in 1..Len(runs) : processResponse(i)
  \/ saveImage

Spec == Init /\ [][Next]_vars

\* the external call settles and the continuation runs
Settles ==
  \/ \E i \in 1..Len(runs) : \E response \in Responses : callResolves(i, response)
  \/ \E i \in 1..Len(runs) : processResponse(i)

LiveSpec == Init /\ [][Next]_vars /\ WF_vars(Settles)

\* ============================================================ properties
RECURSIVE TrimStart(_)
TrimStart(s) ==
  IF s # <<>> /\ IsAsciiWhitespace(s[1]) THEN TrimStart(Tail(s)) ELSE s

RECURSIVE TrimEnd(_)
TrimEnd(s) ==
  IF s # <<>> /\ IsAsciiWhitespace(s[Len(s)])
  THEN TrimEnd(SubSeq(s, 1, Len(s) - 1)) ELSE s

Trim(s) == TrimEnd(TrimStart(s))

\* the response a finished generateImage classified
Processed(st) == st.op = "processResponse"

\* the first candidate of r has a part with inline data
HasInlinePart(r) ==
  \E k \in 1..Len(firstParts(r)) : firstParts(r)[k].inlineData # Null

\* the messages generateImage sets when a request fails or is blocked
GenerationErrors ==
  { Some(MsgMissingFields), Some(MsgMissingKey), Some(MsgBlocked),
    Some(MsgNoImage) } \cup { Some(MsgGenerateFailed(e)) : e \in Errors }

\* C1: a response whose first candidate is blocked for IMAGE_SAFETY ends
\* generateImage with the blocked message and the blocked trace line, and
\* the stored image is left as it was, also when the response carries
\* inline data.
C1_BlockedBeforeImage ==
  [][ (Processed(last') /\ isSafetyBlocked(last'.response[1]))
        => /\ error' = Some(MsgBlocked)
           /\ debugInfo'[Len(debugInfo')] = LineBlocked
           /\ image' = image
           /\ last'.path = "blocked" ]_vars

C1_Witness ==
  /\ Processed(last)
  /\ isSafetyBlocked(last.response[1])
  /\ HasInlinePart(last.response[1])
  /\ error = Some(MsgBlocked)
  /\ image = Null

\* C2: a response that is not blocked and whose first candidate has a part
\* with inline data ends generateImage with that first part stored as the
\* image, its mimeType and data unchanged, and no error set by the step.
C2_FirstInlinePartStored ==
  [][ (Processed(last') /\ ~isSafetyBlocked(last'.response[1])
         /\ HasInlinePart(last'.response[1]))
        => LET parts == firstParts(last'.response[1])
               k == CHOOSE n \in 1..Len(parts) :
                      /\ parts[n].inlineData # Null
                      /\ \A j \in 1..(n - 1) : parts[j].inlineData = Null
           IN  /\ image' # Null
               /\ image'[1].inlineData = parts[k].inlineData
               /\ image'[1] = parts[k]
               /\ error' = error
               /\ last'.path = "image" ]_vars

C2_Witness ==
  /\ Processed(last)
  /\ last.path = "image"
  /\ Len(firstParts(last.response[1])) = 2
  /\ firstParts(last.response[1])[2].inlineData # Null
  /\ image = Some(JpegPart)

\* C3: when word or style is empty or only whitespace, generateImage sets
\* an error and starts no external call.
C3_BlankInputsRejected ==
  (last.op = "generateImage" /\ (Trim(word) = <<>> \/ Trim(style) = <<>>))
    => (last.path = "precondition" /\ error # Null /\ runs = <<>>)

\* C4: a response that is not blocked and whose first candidate has no part
\* with inline data ends generateImage with the no-image error, and the
\* last trace line is the serialized response.
C4_NoImageLogsResponse ==
  (Processed(last) /\ ~isSafetyBlocked(last.response[1])
     /\ ~HasInlinePart(last.response[1]))
    => /\ error = Some(MsgNoImage)
       /\ debugInfo # <<>>
       /\ debugInfo[Len(debugInfo)]
            = <<"API Response: ">> \o Stringify(last.response[1])
       /\ last.path = "noImage"

C4_Witness ==
  /\ Processed(last)
  /\ last.path = "noImage"
  /\ firstParts(last.response[1]) # <<>>
  /\ error = Some(MsgNoImage)

\* C5: with word and style non-empty and no API key, generateImage sets the
\* missing-key message, which is not the missing-fields message, starts no
\* call and leaves loading and the trace alone.
C5_MissingKeyRejected ==
  [][ (last'.op = "generateImage" /\ word # <<>> /\ style # <<>>
         /\ API_KEY = <<>>)
        => /\ error' = Some(MsgMissingKey)
           /\ error' # Some(MsgMissingFields)
           /\ runs' = runs
           /\ loading' = loading
           /\ ~loading'
           /\ debugInfo' = debugInfo ]_vars

C5_Witness ==
  /\ last.op = "generateImage"
  /\ API_KEY = <<>>
  /\ word # <<>> /\ style # <<>>
  /\ error = Some(MsgMissingKey)
  /\ runs = <<>>

\* C6: a stored image never coexists with a request in flight, a blocked
\* request or a failed request.
C6_ImageOnlyWhenSucceeded ==
  image # Null => (~loading /\ error \notin GenerationErrors)

\* C7: at most one invocation of generateImage is in progress.
C7_OneCallOutstanding == Len(runs) <= 1

C7_Witness ==
  /\ Len(runs) = 1
  /\ runs[1].pc = "awaitCall"
  /\ word # <<>> /\ style # <<>>
  /\ generateDisabled

\* C8: when the external call raises, the trace after the catch block is
\* the trace as it stood, starting with the request-sent line, with one
\* error line appended.
C8_ErrorAppendsToLatestTrace ==
  [][ last'.op = "callRejects"
        => /\ \E e \in Errors : debugInfo' = Append(debugInfo, LineError(e))
           /\ debugInfo'[1][1] = "Sending prompt: " ]_vars

\* C9 as stated: saveImage on a stored image whose data does not decode
\* sets a save-failed message, triggers no download, throws nothing and
\* leaves image and trace alone.
C9_MalformedSaveSurfaced ==
  [][ (last'.op = "saveImage" /\ image # Null
         /\ ~atob(image[1].inlineData[1].data).ok)
        => /\ error' = Some(MsgSaveFailed(AtobError))
           /\ saved' = saved
           /\ ~uncaught'
           /\ image' = image
           /\ debugInfo' = debugInfo ]_vars

\* C9 amended: the same, when word is non-empty.
C9_MalformedSaveSurfacedWithWord ==
  [][ (last'.op = "saveImage" /\ image # Null /\ word # <<>>
         /\ ~atob(image[1].inlineData[1].data).ok)
        => /\ error' = Some(MsgSaveFailed(AtobError))
           /\ saved' = saved
           /\ ~uncaught'
           /\ image' = image
           /\ debugInfo' = debugInfo ]_vars

C9_Witness ==
  /\ last.op = "saveImage"
  /\ last.path = "error"
  /\ image = Some(BadPart)
  /\ word # <<>>
  /\ error = Some(MsgSaveFailed(AtobError))

\* C10: loading is true exactly while an invocation of generateImage is in
\* progress, and whenever loading is true it later becomes false.
C10_LoadingTracksCall ==
  /\ [](loading <=> runs # <<>>)
  /\ (loading ~> ~loading)

C10_Witness ==
  /\ Processed(last)
  /\ last.path = "blocked"
  /\ ~loading
  /\ runs = <<>>

====
